---- MODULE Spec2Model ----
(***************************************************************************)
(* Template mining engine of gutachten-assist (src/template_extractor.py): *)
(* the pipeline extract_template and the stage functions it calls, with    *)
(* the text functions they rest on.                                        *)
(*                                                                         *)
(* Texts are sequences of one-character strings.  The letters a-umlaut,    *)
(* o-umlaut, u-umlaut and sharp s are written "a_uml", "o_uml", "u_uml",   *)
(* "sz" (capitals "A_uml", "O_uml", "U_uml"); each is one character.       *)
(* Floating-point rates and thresholds are exact rationals: a threshold is *)
(* a number of hundredths, a rate a record [num, den].  For the corpus     *)
(* sizes reached here int(n * (p / 100.0)) equals (n * p) \div 100 and     *)
(* 1.0 - d / L >= 0.88 equals 100 * (L - d) >= 88 * L.                     *)
(***************************************************************************)
EXTENDS Integers, Sequences, FiniteSets, TLC

(***************************************************************************)
(* Characters                                                              *)
(***************************************************************************)
UpperLetters == <<"A","B","C","D","E","F","G","H","I","J","K","L","M","N","O","P","Q","R","S","T","U","V","W","X","Y","Z","A_uml","O_uml","U_uml">>

LowerLetters == <<"a","b","c","d","e","f","g","h","i","j","k","l","m","n","o","p","q","r","s","t","u","v","w","x","y","z","a_uml","o_uml","u_uml">>

Range(s) == {s[i] : i \in DOMAIN s}

Digits == {"0","1","2","3","4","5","6","7","8","9"}

\* a-z plus the umlauts and sharp s: the class [a-zäöüß]
LowerClass == Range(LowerLetters) \cup {"sz"}

\* \w of Python's re on str: letters, digits, underscore
WordChars == Range(LowerLetters) \cup Range(UpperLetters) \cup {"sz"} \cup Digits \cup {"_"}

\* \s of Python's re and the characters str.strip() removes
Whitespace == {" ", "\t", "\n"}

\* str.lower() on one character
LowerChar(c) ==
    IF \E i \in DOMAIN UpperLetters : UpperLetters[i] = c
    THEN LowerLetters[CHOOSE i \in DOMAIN UpperLetters : UpperLetters[i] = c]
    ELSE c

\* str.lower()
Lower(s) == [i \in DOMAIN s |-> LowerChar(s[i])]

RECURSIVE LStrip(_, _)
\* str.lstrip(chars)
LStrip(s, chars) ==
    IF s # <<>> /\ Head(s) \in chars THEN LStrip(Tail(s), chars) ELSE s

RECURSIVE RStrip(_, _)
\* str.rstrip(chars)
RStrip(s, chars) ==
    IF s # <<>> /\ s[Len(s)] \in chars
    THEN RStrip(SubSeq(s, 1, Len(s) - 1), chars)
    ELSE s

\* str.strip()
Strip(s) == RStrip(LStrip(s, Whitespace), Whitespace)

RECURSIVE CollapseWhitespace(_)
\* re.sub(r'\s+', ' ', s)
CollapseWhitespace(s) ==
    IF s = <<>> THEN <<>>
    ELSE IF Head(s) \in Whitespace
         THEN <<" ">> \o CollapseWhitespace(LStrip(s, Whitespace))
         ELSE <<Head(s)>> \o CollapseWhitespace(Tail(s))

\* re.sub('[' + chars + ']', to, s) for a class of single characters
ReplaceChars(s, chars, to) == [i \in DOMAIN s |-> IF s[i] \in chars THEN to ELSE s[i]]

\* The classes of lines 197-199 as Python reads them: r'[""<low-9 double quote>]',
\* r'[' '<low-9 single quote>]' (two adjacent literals), r'[<en dash><em dash>]'.
DoubleQuoteClass == {"\"", "low9dquote"}

SingleQuoteClass == {"low9squote"}

DashClass == {"endash", "emdash"}

\* normalize_basic with the dashes turned into spaces
normalize_basic_dash_to_space(text) ==
    LET r1 == Strip(Lower(text))
        r2 == CollapseWhitespace(r1)
        r3 == ReplaceChars(r2, DoubleQuoteClass, "\"")
        r4 == ReplaceChars(r3, SingleQuoteClass, "'")
    IN  ReplaceChars(r4, DashClass, " ")

normalize_basic(text) ==
    LET r1 == Strip(Lower(text))
        r2 == CollapseWhitespace(r1)
        r3 == ReplaceChars(r2, DoubleQuoteClass, "\"")
        r4 == ReplaceChars(r3, SingleQuoteClass, "'")
    IN  ReplaceChars(r4, DashClass, "-")

(***************************************************************************)
(* Regular expressions of Python's re, as far as the patterns of the       *)
(* source use them: character classes, concatenation, alternation, greedy  *)
(* bounded and unbounded repetition, \b.  All patterns are applied with    *)
(* re.IGNORECASE: a class is written with lower-case letters and a         *)
(* character is compared after LowerChar.  Ends(r, s, i) lists the         *)
(* positions where a match of r starting before s[i] can end, in the order *)
(* Python's backtracking tries them, so its head is the match re takes.    *)
(***************************************************************************)
RSet(chars) == [k |-> "set", chars |-> chars]

RCat(parts) == [k |-> "cat", parts |-> parts]

RAlt(parts) == [k |-> "alt", parts |-> parts]

\* r{lo,hi}
RRep(r, lo, hi) == [k |-> "rep", r |-> r, lo |-> lo, hi |-> hi, unbounded |-> FALSE]

\* r*
RStar(r) == [k |-> "rep", r |-> r, lo |-> 0, hi |-> 0, unbounded |-> TRUE]

\* r+
RPlus(r) == [k |-> "rep", r |-> r, lo |-> 1, hi |-> 0, unbounded |-> TRUE]

\* r?
ROpt(r) == RRep(r, 0, 1)

\* \b
RWordBoundary == [k |-> "wb"]

\* a literal string
RLit(s) == RCat([i \in DOMAIN s |-> RSet({s[i]})])

RDigit == RSet(Digits)

RSpace == RSet(Whitespace)

IsWordAt(s, i) == i >= 1 /\ i <= Len(s) /\ s[i] \in WordChars

RECURSIVE Ends(_, _, _)
RECURSIVE EndsFrom(_, _, _)
RECURSIVE EndsCat(_, _, _, _)
RECURSIVE EndsAlt(_, _, _, _)
RECURSIVE EndsRep(_, _, _)
\* the ends of r started at each position of starts, in order
EndsFrom(r, s, starts) ==
    IF starts = <<>> THEN <<>>
    ELSE Ends(r, s, Head(starts)) \o EndsFrom(r, s, Tail(starts))

EndsCat(parts, n, s, starts) ==
    IF n > Len(parts) \/ starts = <<>> THEN starts
    ELSE EndsCat(parts, n + 1, s, EndsFrom(parts[n], s, starts))

EndsAlt(parts, n, s, i) ==
    IF n > Len(parts) THEN <<>>
    ELSE Ends(parts[n], s, i) \o EndsAlt(parts, n + 1, s, i)

\* greedy: one more repetition is tried before stopping here; a repetition
\* that consumes nothing is not repeated
EndsRep(r, s, i) ==
    LET rest == [r EXCEPT !.lo = IF r.lo > 0 THEN r.lo - 1 ELSE 0,
                          !.hi = IF r.unbounded THEN 0 ELSE r.hi - 1]
        more == IF r.unbounded \/ r.hi > 0
                THEN EndsFrom(rest, s, SelectSeq(Ends(r.r, s, i), LAMBDA e : e > i))
                ELSE <<>>
        here == IF r.lo = 0 THEN <<i>> ELSE <<>>
    IN  more \o here

Ends(r, s, i) ==
    CASE r.k = "set" -> IF i <= Len(s) /\ LowerChar(s[i]) \in r.chars THEN <<i + 1>> ELSE <<>>
      [] r.k = "wb"  -> IF IsWordAt(s, i - 1) # IsWordAt(s, i) THEN <<i>> ELSE <<>>
      [] r.k = "cat" -> EndsCat(r.parts, 1, s, <<i>>)
      [] r.k = "alt" -> EndsAlt(r.parts, 1, s, i)
      [] r.k = "rep" -> EndsRep(r, s, i)

RECURSIVE SubFrom(_, _, _, _)
\* re.sub(r, repl, s) from position i on: leftmost matches, not overlapping
SubFrom(r, repl, s, i) ==
    IF i > Len(s) THEN <<>>
    ELSE LET ends == Ends(r, s, i)
         IN  IF ends # <<>> /\ Head(ends) > i
             THEN repl \o SubFrom(r, repl, s, Head(ends))
             ELSE <<s[i]>> \o SubFrom(r, repl, s, i + 1)

ReSub(r, repl, s) == SubFrom(r, repl, s, 1)

\* re.search(r, s) is not None
ReSearch(r, s) == \E i \in 1..(Len(s) + 1) : Ends(r, s, i) # <<>>

RECURSIVE SubAll(_, _, _, _)
\* for pattern in patterns: result = re.sub(pattern, repl, result)
SubAll(patterns, n, repl, s) ==
    IF n > Len(patterns) THEN s
    ELSE SubAll(patterns, n + 1, repl, ReSub(patterns[n], repl, s))

(***************************************************************************)
(* Phase 1: normalization layers and the fingerprint                       *)
(***************************************************************************)
RDot == RSet({"."})

\* [A-Z] under IGNORECASE
AsciiLetters == {LowerLetters[i] : i \in 1..26}

\* [A-ZÄÖÜ] under IGNORECASE
CapitalClass == Range(LowerLetters)

MonthNames == RAlt(<<
    RLit(<<"j","a","n","u","a","r">>),
    RLit(<<"f","e","b","r","u","a","r">>),
    RLit(<<"m","a_uml","r","z">>),
    RLit(<<"a","p","r","i","l">>),
    RLit(<<"m","a","i">>),
    RLit(<<"j","u","n","i">>),
    RLit(<<"j","u","l","i">>),
    RLit(<<"a","u","g","u","s","t">>),
    RLit(<<"s","e","p","t","e","m","b","e","r">>),
    RLit(<<"o","k","t","o","b","e","r">>),
    RLit(<<"n","o","v","e","m","b","e","r">>),
    RLit(<<"d","e","z","e","m","b","e","r">>)>>)

\* \d{1,2}\.\d{1,2}\.\d{2,4}
RNumericDate == RCat(<<RRep(RDigit, 1, 2), RDot, RRep(RDigit, 1, 2), RDot, RRep(RDigit, 2, 4)>>)

DATE_PATTERNS == <<
    RCat(<<RWordBoundary, RNumericDate, RWordBoundary>>),
    RCat(<<RWordBoundary, RRep(RDigit, 4, 4), RSet({"-"}), RRep(RDigit, 2, 2), RSet({"-"}),
           RRep(RDigit, 2, 2), RWordBoundary>>),
    RCat(<<RWordBoundary, RRep(RDigit, 1, 2), RDot, RStar(RSpace), MonthNames, RStar(RSpace),
           RRep(RDigit, 2, 4), RWordBoundary>>),
    RCat(<<RWordBoundary, MonthNames, RStar(RSpace), RRep(RDigit, 2, 4), RWordBoundary>>)
>>

\* [:\s]*[\w\-/]+\b
RIdTail == RCat(<<RStar(RSet({":"} \cup Whitespace)), RPlus(RSet(WordChars \cup {"-", "/"})),
                  RWordBoundary>>)

ID_PATTERNS == <<
    RCat(<<RWordBoundary, RRep(RSet(AsciiLetters), 1, 3), RStar(RSpace), RRep(RDigit, 6, 12),
           RWordBoundary>>),
    RCat(<<RWordBoundary, RLit(<<"a","k","t","e","n","z","e","i","c","h","e","n">>), RIdTail>>),
    RCat(<<RWordBoundary, RLit(<<"a","z">>), ROpt(RDot), RIdTail>>),
    RCat(<<RWordBoundary, RLit(<<"v","e","r","s","i","c","h","e","r","u","n","g","s","n">>),
           ROpt(RSet({"r"})), ROpt(RDot), RIdTail>>),
    RCat(<<RWordBoundary, RLit(<<"v","e","r","s">>), ROpt(RDot), RStar(RSpace), RLit(<<"n","r">>),
           ROpt(RDot), RIdTail>>)
>>

normalize_no_dates(text) == SubAll(DATE_PATTERNS, 1, <<"<","D","A","T","E",">">>, text)

normalize_no_ids(text) == SubAll(ID_PATTERNS, 1, <<"<","I","D",">">>, text)

\* para["fingerprint"]: the style, and the SHA-1 prefix of the no_ids layer.
\* The hash is kept as the text it hashes: two texts collide only when equal.
Fingerprint(text, style) ==
    [style |-> style, hash |-> normalize_no_ids(normalize_no_dates(normalize_basic(text)))]

(***************************************************************************)
(* ParagraphFingerprint.is_likely_patient_specific                         *)
(***************************************************************************)
\* ParagraphFingerprint._normalize_text
NormalizeTextCommon(text) ==
    LET t == Strip(CollapseWhitespace(text))
    IN  IF t # <<>> /\ t[Len(t)] = ":" THEN SubSeq(t, 1, Len(t) - 1) ELSE t

patient_patterns == <<
    RCat(<<RWordBoundary,
           RAlt(<<RLit(<<"h","e","r","r">>), RLit(<<"f","r","a","u">>),
                  RLit(<<"p","a","t","i","e","n","t">>),
                  RLit(<<"p","a","t","i","e","n","t","i","n">>)>>),
           RPlus(RSpace), RSet(CapitalClass), RPlus(RSet(LowerClass))>>),
    RCat(<<RWordBoundary, RLit(<<"g","e","b",".">>), RStar(RSpace), RDigit>>),
    RCat(<<RWordBoundary, RLit(<<"g","e","b","o","r","e","n">>), RPlus(RSpace),
           ROpt(RCat(<<RLit(<<"a","m">>), RStar(RSpace)>>)), RDigit>>),
    RCat(<<RWordBoundary,
           RLit(<<"v","e","r","s","i","c","h","e","r","u","n","g","s","n","u","m","m","e","r">>),
           RStar(RSpace), ROpt(RSet({":"})), RStar(RSpace), RDigit>>),
    RCat(<<RWordBoundary, RLit(<<"a","z">>), ROpt(RDot), RStar(RSpace), ROpt(RSet({":"})),
           RStar(RSpace), RDigit>>),
    RCat(<<RWordBoundary, RLit(<<"w","o","h","n","h","a","f","t">>)>>),
    RAlt(<<RCat(<<RWordBoundary, RLit(<<"s","t","r","a","sz","e">>)>>),
           RLit(<<"s","t","r",".">>)>>),
    RCat(<<RRep(RDigit, 5, 5), RPlus(RSpace), RSet(CapitalClass)>>),
    RCat(<<RWordBoundary, RNumericDate, RWordBoundary>>)
>>

is_likely_patient_specific(text) ==
    LET t == Lower(NormalizeTextCommon(text))
    IN  \E n \in DOMAIN patient_patterns : ReSearch(patient_patterns[n], t)

(***************************************************************************)
(* Phase 3: canonical vocabulary and Levenshtein similarity                *)
(***************************************************************************)
KNOWN_ANCHORS == <<
    <<"G","u","t","a","c","h","t","e","r","l","i","c","h","e"," ","F","r","a","g","e","s","t","e","l","l","u","n","g">>,
    <<"F","r","a","g","e","s","t","e","l","l","u","n","g">>,
    <<"1","."," ","A","n","a","m","n","e","s","e">>,
    <<"A","n","a","m","n","e","s","e">>,
    <<"2","."," ","U","n","t","e","r","s","u","c","h","u","n","g","s","b","e","f","u","n","d","e">>,
    <<"U","n","t","e","r","s","u","c","h","u","n","g","s","b","e","f","u","n","d","e">>,
    <<"3","."," ","D","i","a","g","n","o","s","e","n">>,
    <<"D","i","a","g","n","o","s","e","n">>,
    <<"D","i","a","g","n","o","s","e">>,
    <<"4","."," ","E","p","i","k","r","i","s","e">>,
    <<"E","p","i","k","r","i","s","e">>,
    <<"5","."," ","S","o","z","i","a","l","m","e","d","i","z","i","n","i","s","c","h","e"," ","L","e","i","s","t","u","n","g","s","b","e","u","r","t","e","i","l","u","n","g">>,
    <<"S","o","z","i","a","l","m","e","d","i","z","i","n","i","s","c","h","e"," ","L","e","i","s","t","u","n","g","s","b","e","u","r","t","e","i","l","u","n","g">>,
    <<"1",".","1"," ","A","n","a","m","n","e","s","e"," ","m","e","d","i","z","i","n","i","s","c","h","e","r"," ","D","a","t","e","n">>,
    <<"A","n","a","m","n","e","s","e"," ","m","e","d","i","z","i","n","i","s","c","h","e","r"," ","D","a","t","e","n">>,
    <<"1",".","2"," ","B","i","o","g","r","a","f","i","s","c","h","e"," ","A","n","a","m","n","e","s","e">>,
    <<"B","i","o","g","r","a","f","i","s","c","h","e"," ","A","n","a","m","n","e","s","e">>,
    <<"F","a","m","i","l","i","e","n","a","n","a","m","n","e","s","e">>,
    <<"E","i","g","e","n","a","n","a","m","n","e","s","e">>,
    <<"S","o","z","i","a","l","a","n","a","m","n","e","s","e">>,
    <<"V","e","g","e","t","a","t","i","v","e"," ","A","n","a","m","n","e","s","e">>,
    <<"A","k","t","u","e","l","l","e"," ","B","e","s","c","h","w","e","r","d","e","n">>,
    <<"J","e","t","z","i","g","e"," ","B","e","s","c","h","w","e","r","d","e","n">>,
    <<"A","k","t","u","e","l","l","e"," ","M","e","d","i","k","a","t","i","o","n">>,
    <<"T","h","e","r","a","p","i","e"," ","u","n","d"," ","b","e","h","a","n","d","e","l","n","d","e"," ","A_uml","r","z","t","e">>,
    <<"N","e","u","r","o","l","o","g","i","s","c","h","e","r"," ","B","e","f","u","n","d">>,
    <<"K","o_uml","r","p","e","r","l","i","c","h","e","r"," ","B","e","f","u","n","d">>,
    <<"P","s","y","c","h","i","s","c","h","e","r"," ","B","e","f","u","n","d">>,
    <<"N","e","u","r","o","l","o","g","i","s","c","h","e","r","/","k","o_uml","r","p","e","r","l","i","c","h","e","r"," ","U","n","t","e","r","s","u","c","h","u","n","g","s","b","e","f","u","n","d">>,
    <<"B","e","u","r","t","e","i","l","u","n","g">>,
    <<"Z","u","s","a","m","m","e","n","f","a","s","s","u","n","g">>,
    <<"T","h","e","r","a","p","i","e","e","m","p","f","e","h","l","u","n","g">>,
    <<"E","m","p","f","e","h","l","u","n","g">>,
    <<"H","a","m","i","l","t","o","n"," ","D","e","p","r","e","s","s","i","o","n"," ","S","c","a","l","e">>,
    <<"V","o","r","g","e","l","e","g","t","e"," ","K","l","i","n","i","k","a","u","f","e","n","t","h","a","l","t","e">>
>>

Min3(a, b, c) == IF a <= b THEN (IF a <= c THEN a ELSE c) ELSE (IF b <= c THEN b ELSE c)

RECURSIVE LevCells(_, _, _, _, _, _)
\* for j in range(lo, hi + 1): d[i][j] = min(...), on the row acc = d[i][0..lo-1]
\* (column j is at index j + 1).  The range is walked left to right; it is
\* split in halves only to keep the evaluation shallow.
LevCells(prev, c, s2, acc, lo, hi) ==
    IF lo > hi THEN acc
    ELSE IF lo = hi
         THEN Append(acc, Min3(prev[lo + 1] + 1,                          \* deletion
                               acc[lo] + 1,                               \* insertion
                               prev[lo] + (IF c = s2[lo] THEN 0 ELSE 1))) \* substitution
         ELSE LET mid == (lo + hi) \div 2
                  left == LevCells(prev, c, s2, acc, lo, mid)
              IN  IF Len(left) = mid + 1 THEN LevCells(prev, c, s2, left, mid + 1, hi) ELSE <<>>

RECURSIVE LevRows(_, _, _, _, _)
\* for i in range(lo, hi + 1): row i from row i - 1
LevRows(s1, s2, prev, lo, hi) ==
    IF lo > hi THEN prev
    ELSE IF lo = hi
         THEN LevCells(prev, s1[lo], s2, <<lo>>, 1, Len(s2))
         ELSE LET mid == (lo + hi) \div 2
                  upper == LevRows(s1, s2, prev, lo, mid)
              IN  IF Len(upper) = Len(s2) + 1 THEN LevRows(s1, s2, upper, mid + 1, hi) ELSE <<>>

\* d[len1][len2]
LevenshteinDistance(s1, s2) ==
    LevRows(s1, s2, [j \in 1..(Len(s2) + 1) |-> j - 1], 1, Len(s1))[Len(s2) + 1]

Max(a, b) == IF a >= b THEN a ELSE b

\* 1.0 - distance / max_len, as the rational (max_len - distance) / max_len
levenshtein_similarity(s1, s2) ==
    IF s1 = <<>> \/ s2 = <<>> THEN [num |-> 0, den |-> 1]
    ELSE LET max_len == Max(Len(s1), Len(s2))
         IN  [num |-> max_len - LevenshteinDistance(s1, s2), den |-> max_len]

(***************************************************************************)
(* Python containers                                                       *)
(***************************************************************************)
\* A dict is the sequence of its items [key, val] in insertion order.
Keys(d) == {d[i].key : i \in DOMAIN d}

IndexOf(d, k) == CHOOSE i \in DOMAIN d : d[i].key = k

Get(d, k) == d[IndexOf(d, k)].val

\* d[k] = v
Put(d, k, v) ==
    IF k \in Keys(d) THEN [d EXCEPT ![IndexOf(d, k)] = [key |-> k, val |-> v]]
    ELSE Append(d, [key |-> k, val |-> v])

\* d[k] of a defaultdict whose factory returns default
GetDefault(d, k, default) == IF k \in Keys(d) THEN Get(d, k) ELSE default

\* if x not in list: list.append(x)
AppendNew(list, x) == IF x \in Range(list) THEN list ELSE Append(list, x)

\* list[:n]
Prefix(list, n) == SubSeq(list, 1, IF Len(list) < n THEN Len(list) ELSE n)

\* sub in s, for strings
Contains(sub, s) ==
    \E i \in 0..(Len(s) - Len(sub)) : SubSeq(s, i + 1, i + Len(sub)) = sub

\* the permutations of a finite set, as sequences
Orderings(S) ==
    {p \in [1..Cardinality(S) -> S] : \A i, j \in 1..Cardinality(S) : p[i] = p[j] => i = j}

\* list(a_set): the elements of the set in the iteration order of this run.
\* The order of a set of strings depends on the hash seed of the process;
\* order is one ordering of all elements a set can hold.
ListOfSet(S, order) == SelectSeq(order, LAMBDA x : x \in S)

RECURSIVE LexLess(_, _)
\* a < b for tuples of integers
LexLess(a, b) ==
    IF a = <<>> \/ b = <<>> THEN a = <<>> /\ b # <<>>
    ELSE Head(a) < Head(b) \/ (Head(a) = Head(b) /\ LexLess(Tail(a), Tail(b)))

RECURSIVE InsertSorted(_, _)
\* x put after every element whose sort key is not greater
InsertSorted(sorted, x) ==
    IF sorted = <<>> THEN <<x>>
    ELSE IF LexLess(x.sortkey, Head(sorted).sortkey)
         THEN <<x>> \o sorted
         ELSE <<Head(sorted)>> \o InsertSorted(Tail(sorted), x)

RECURSIVE SortFrom(_, _, _)
SortFrom(list, n, sorted) ==
    IF n > Len(list) THEN sorted
    ELSE SortFrom(list, n + 1, InsertSorted(sorted, list[n]))

\* StableSort that leaves the list in the order it came in
LeftUnsorted(list) == list

\* list.sort(key=...) on records that carry their key as sortkey: stable
StableSort(list) == SortFrom(list, 1, <<>>)

(***************************************************************************)
(* Phase 0: the documents of the input folder                              *)
(***************************************************************************)
StyleNormal == <<"N","o","r","m","a","l">>

StyleHeading1 == <<"H","e","a","d","i","n","g"," ","1">>

StyleTitle == <<"T","i","t","l","e">>

StyleSubtitle == <<"S","u","b","t","i","t","l","e">>

StyleListBullet == <<"L","i","s","t"," ","B","u","l","l","e","t">>

StyleHeading2 == <<"H","e","a","d","i","n","g"," ","2">>

StyleHeading3 == <<"H","e","a","d","i","n","g"," ","3">>

TextAnamnese == <<"A","n","a","m","n","e","s","e">>

TextAnamneseColon == <<"A","n","a","m","n","e","s","e",":">>

TextDiagnose == <<"D","i","a","g","n","o","s","e">>

TextBorn1970 == <<"g","e","b","."," ","0","3",".","0","5",".","1","9","7","0">>

TextBorn1980 == <<"g","e","b","."," ","0","1",".","0","1",".","1","9","8","0">>

TextJa == <<"J","a">>

TextPraxis == <<"P","r","a","x","i","s">>

TextSeite == <<"S","e","i","t","e">>

\* a paragraph of three spaces: empty once trimmed, three characters raw
TextBlank == <<" "," "," ">>

\* what extract_paragraph_info keeps of a paragraph and a later stage reads
Para(text, style, is_list) == [text |-> text, style |-> style, is_list |-> is_list]

Section(header, footer) == [header |-> header, footer |-> footer]

\* a readable .docx file: its body paragraphs and the header and footer
\* paragraphs of each section
Docx(paragraphs, sections) == [paragraphs |-> paragraphs, sections |-> sections]

DocA == Docx(<<Para(TextAnamnese, StyleHeading1, FALSE), Para(TextBorn1970, StyleNormal, FALSE)>>,
             <<Section(<<TextPraxis>>, <<TextSeite>>)>>)

DocB == Docx(<<Para(TextAnamnese, StyleHeading1, FALSE), Para(TextAnamneseColon, StyleNormal, FALSE),
               Para(TextBorn1980, StyleNormal, FALSE), Para(TextBlank, StyleNormal, FALSE)>>,
             <<Section(<<TextPraxis>>, <<TextPraxis>>), Section(<<TextPraxis>>, <<TextPraxis>>)>>)

DocC == Docx(<<Para(TextDiagnose, StyleHeading1, FALSE), Para(TextJa, StyleNormal, TRUE),
               Para(TextJa, StyleNormal, TRUE)>>,
             <<Section(<<>>, <<TextSeite>>)>>)

DocD == Docx(<<Para(<<>>, StyleNormal, FALSE), Para(TextBorn1980, StyleNormal, FALSE),
               Para(TextJa, StyleListBullet, TRUE)>>, <<>>)

\* one paragraph three times over, and two sections with different headers
DocE == Docx(<<Para(TextAnamneseColon, StyleNormal, FALSE), Para(TextAnamneseColon, StyleNormal, FALSE),
               Para(TextAnamneseColon, StyleNormal, FALSE)>>,
             <<Section(<<TextPraxis>>, <<>>), Section(<<TextSeite>>, <<>>)>>)

DocPool == {DocA, DocB, DocC, DocD, DocE}

\* a file python-docx cannot open
Corrupt == [corrupt |-> TRUE]

IsCorrupt(file) == "corrupt" \in DOMAIN file

FilePool == DocPool \cup {Corrupt}

PoolParagraphs == UNION {Range(d.paragraphs) : d \in DocPool}

PoolTexts == {p.text : p \in PoolParagraphs}

PoolStyles == {p.style : p \in PoolParagraphs}

RECURSIVE Join(_, _)
\* sep.join(texts)
Join(texts, sep) ==
    IF texts = <<>> THEN <<>>
    ELSE IF Len(texts) = 1 THEN texts[1]
    ELSE texts[1] \o sep \o Join(Tail(texts), sep)

\* "\n".join(p.text for p in paragraphs if p.text.strip())
HeaderText(paragraphs) == Join(SelectSeq(paragraphs, LAMBDA t : Strip(t) # <<>>), <<"\n">>)

RECURSIVE SectionTexts(_, _, _)
\* the non-empty header (or footer) texts of the sections, in section order
SectionTexts(sections, part, n) ==
    IF n > Len(sections) THEN <<>>
    ELSE LET paragraphs == IF part = "header" THEN sections[n].header ELSE sections[n].footer
             text == HeaderText(paragraphs)
         IN  (IF paragraphs # <<>> /\ text # <<>> THEN <<text>> ELSE <<>>)
             \o SectionTexts(sections, part, n + 1)

\* the header and footer texts a document can yield
DocHeaderTexts(docx) ==
    Range(SectionTexts(docx.sections, "header", 1)) \cup Range(SectionTexts(docx.sections, "footer", 1))

\* extract_header_footer with list(headers) for list(set(headers))
extract_header_footer_of_every_section(docx, order) == [headers |-> SectionTexts(docx.sections, "header", 1), footers |-> SectionTexts(docx.sections, "footer", 1)]

extract_header_footer(docx, order) ==
    [headers |-> ListOfSet(Range(SectionTexts(docx.sections, "header", 1)), order),
     footers |-> ListOfSet(Range(SectionTexts(docx.sections, "footer", 1)), order)]

\* The profile fields no later stage reads (source_file, extracted_at,
\* paragraph_count, styles_histogram, the spacing and indentation of a
\* paragraph) are left out.
parse_docx_to_profile(docx, order) ==
    [paragraphs |-> docx.paragraphs,
     headers |-> extract_header_footer(docx, order).headers,
     footers |-> extract_header_footer(docx, order).footers]

\* Fingerprint on the paragraphs of the pool, computed once
FingerprintMemo == [p \in {<<q.text, q.style>> : q \in PoolParagraphs} |-> Fingerprint(p[1], p[2])]

\* the loop body of add_normalizations; of the fields it adds only the
\* fingerprint is read later
AddNormalization(para) ==
    [text |-> para.text, style |-> para.style, is_list |-> para.is_list,
     fingerprint |-> FingerprintMemo[<<para.text, para.style>>]]

add_normalizations(profile) ==
    [profile EXCEPT !.paragraphs = [i \in DOMAIN profile.paragraphs |->
                                        AddNormalization(profile.paragraphs[i])]]

(***************************************************************************)
(* Phase 2: boilerplate detection                                          *)
(***************************************************************************)
\* CONFIG
BoilerplateThreshold == 85

MinTextLength == 3

AnchorSimilarityThreshold == 88

ngram_sizes == <<2, 3, 4, 5>>

EmptyFingerprintEntry == [count |-> 0, examples |-> <<>>, styles |-> {}]

\* CountParagraph without the test of seen_in_doc: every occurrence counts
CountParagraphEveryOccurrence(counts, seen, para) ==
    LET fp == para.fingerprint
        old == GetDefault(counts, fp, EmptyFingerprintEntry)
        examples == IF Len(old.examples) < 3 THEN AppendNew(old.examples, para.text)
                    ELSE old.examples
    IN  Put(counts, fp, [count |-> old.count + 1, examples |-> examples,
                         styles |-> old.styles \cup {para.style}])

\* lines 264-274: one paragraph of a document; seen is seen_in_doc
CountParagraph(counts, seen, para) ==
    LET fp == para.fingerprint
        old == GetDefault(counts, fp, EmptyFingerprintEntry)
        counted == IF fp \notin seen THEN old.count + 1 ELSE old.count
        examples == IF Len(old.examples) < 3 THEN AppendNew(old.examples, para.text)
                    ELSE old.examples
    IN  Put(counts, fp, [count |-> counted, examples |-> examples,
                         styles |-> old.styles \cup {para.style}])

RECURSIVE CountParagraphs(_, _, _, _)
\* lines 262-274: the paragraphs n.. of one document
CountParagraphs(counts, seen, paragraphs, n) ==
    IF n > Len(paragraphs) THEN counts
    ELSE CountParagraphs(CountParagraph(counts, seen, paragraphs[n]),
                         seen \cup {paragraphs[n].fingerprint}, paragraphs, n + 1)

RECURSIVE CountProfiles(_, _, _)
\* lines 261-274
CountProfiles(counts, profiles, n) ==
    IF n > Len(profiles) THEN counts
    ELSE CountProfiles(CountParagraphs(counts, {}, profiles[n].paragraphs, 1), profiles, n + 1)

\* compute_fingerprint_counts with the loop over the profiles starting one late
compute_fingerprint_counts_from_second(profiles, order) ==
    LET counts == CountProfiles(<<>>, profiles, 2)
    IN  [i \in DOMAIN counts |->
            [key |-> counts[i].key,
             val |-> [counts[i].val EXCEPT !.styles = ListOfSet(counts[i].val.styles, order)]]]

compute_fingerprint_counts(profiles, order) ==
    LET counts == CountProfiles(<<>>, profiles, 1)
    IN  [i \in DOMAIN counts |->
            [key |-> counts[i].key,
             val |-> [counts[i].val EXCEPT !.styles = ListOfSet(counts[i].val.styles, order)]]]

\* int(total_docs * threshold), the threshold in hundredths
MinCount(total_docs, threshold) == (total_docs * threshold) \div 100

\* IsFixed with the comparison of the count turned round
IsFixedAtMost(data, min_count) ==
    data.count <= min_count /\ Len(data.examples[1]) >= MinTextLength

\* lines 294-297
IsFixed(data, min_count) ==
    data.count >= min_count /\ Len(data.examples[1]) >= MinTextLength

\* lines 299-305
ClassificationEntry(fp, data, total_docs) ==
    [fingerprint |-> fp,
     occurrence_count |-> data.count,
     occurrence_rate |-> [num |-> data.count, den |-> total_docs],
     examples |-> data.examples,
     styles |-> data.styles]

classify_paragraphs(fingerprint_counts, total_docs, threshold) ==
    LET min_count == MinCount(total_docs, threshold)
        entry(i) == [key |-> fingerprint_counts[i].key,
                     val |-> ClassificationEntry(fingerprint_counts[i].key,
                                                 fingerprint_counts[i].val, total_docs)]
        fixed(i) == IsFixed(fingerprint_counts[i].val, min_count)
        pick(want) == LET idx == SelectSeq([i \in DOMAIN fingerprint_counts |-> i],
                                           LAMBDA i : fixed(i) = want)
                      IN  [n \in DOMAIN idx |-> entry(idx[n])]
    IN  [fixed |-> pick(TRUE), variable |-> pick(FALSE)]

\* the (n, i) of lines 324-325 for one document, in loop order
RECURSIVE Windows(_, _)
Windows(length, k) ==
    IF k > Len(ngram_sizes) THEN <<>>
    ELSE LET n == ngram_sizes[k]
         IN  [i \in 1..(IF length - n + 1 > 0 THEN length - n + 1 ELSE 0) |-> [n |-> n, i |-> i]]
             \o Windows(length, k + 1)

\* text[:50]
First50(text) == Prefix(text, 50)

\* lines 326-335.  The key "||".join(seq) stands for the tuple seq itself: a
\* fingerprint (style, colon, hex digits) holds no "||" for the styles here.
CountWindow(counts, paragraphs, w, fixed_fingerprints) ==
    LET seq == [j \in 1..w.n |-> paragraphs[w.i + j - 1].fingerprint]
        old == GetDefault(counts, seq, [count |-> 0, examples |-> <<>>])
        example_texts == [j \in 1..w.n |-> First50(paragraphs[w.i + j - 1].text)]
    IN  IF seq[1] \in fixed_fingerprints
        THEN Put(counts, seq,
                 [count |-> old.count + 1,
                  examples |-> IF Len(old.examples) < 2 THEN Append(old.examples, example_texts)
                               ELSE old.examples])
        ELSE counts

RECURSIVE CountWindows(_, _, _, _, _)
CountWindows(counts, paragraphs, windows, k, fixed_fingerprints) ==
    IF k > Len(windows) THEN counts
    ELSE CountWindows(CountWindow(counts, paragraphs, windows[k], fixed_fingerprints),
                      paragraphs, windows, k + 1, fixed_fingerprints)

RECURSIVE CountSequences(_, _, _, _)
\* lines 321-335
CountSequences(counts, profiles, n, fixed_fingerprints) ==
    IF n > Len(profiles) THEN counts
    ELSE CountSequences(CountWindows(counts, profiles[n].paragraphs,
                                     Windows(Len(profiles[n].paragraphs), 1), 1,
                                     fixed_fingerprints),
                        profiles, n + 1, fixed_fingerprints)

detect_sequences(profiles, fixed_fingerprints) ==
    LET sequence_counts == CountSequences(<<>>, profiles, 1, fixed_fingerprints)
        total_docs == Len(profiles)
        min_count == MinCount(total_docs, BoilerplateThreshold)
        kept == SelectSeq(sequence_counts, LAMBDA e : e.val.count >= min_count)
    IN  StableSort([i \in DOMAIN kept |->
            [sequence |-> kept[i].key,
             count |-> kept[i].val.count,
             rate |-> [num |-> kept[i].val.count, den |-> total_docs],
             examples |-> kept[i].val.examples,
             sortkey |-> <<0 - Len(kept[i].key), 0 - kept[i].val.count>>]])

(***************************************************************************)
(* Phase 3: anchors and skeleton                                           *)
(***************************************************************************)
KnownNormalized == [n \in DOMAIN KNOWN_ANCHORS |-> normalize_basic(KNOWN_ANCHORS[n])]

\* similarity >= CONFIG["anchor_similarity_threshold"]
SimilarEnough(similarity) == 100 * similarity.num >= AnchorSimilarityThreshold * similarity.den

\* FirstMatch with the entry of the highest similarity for the first entry
\* that reaches the threshold
HighestMatch(norm_text, n) == LET reached == {m \in n..Len(KNOWN_ANCHORS) : SimilarEnough(levenshtein_similarity(norm_text, KnownNormalized[m]))} IN IF reached = {} THEN 0 ELSE CHOOSE m \in reached : \A k \in reached : levenshtein_similarity(norm_text, KnownNormalized[m]).num * levenshtein_similarity(norm_text, KnownNormalized[k]).den >= levenshtein_similarity(norm_text, KnownNormalized[k]).num * levenshtein_similarity(norm_text, KnownNormalized[m]).den

RECURSIVE FirstMatch(_, _)
\* lines 460-469: the first entry from position n on that norm_text
\* matches, 0 when the loop ends without a break
FirstMatch(norm_text, n) ==
    IF n > Len(KNOWN_ANCHORS) THEN 0
    ELSE IF SimilarEnough(levenshtein_similarity(norm_text, KnownNormalized[n])) THEN n
    ELSE FirstMatch(norm_text, n + 1)

\* lines 444-469 for one paragraph: the position of the vocabulary entry the
\* paragraph is credited to, 0 when it is credited to none
MatchParagraph(raw_text, style) ==
    LET text == Strip(raw_text)
        is_heading_style == Contains(<<"H","e","a","d","i","n","g">>, style)
                            \/ style \in {StyleTitle, StyleSubtitle}
        is_short == Len(text) < 60
    IN  IF text = <<>> \/ Len(text) > 100 THEN 0
        ELSE IF is_heading_style \/ is_short
             THEN FirstMatch(normalize_basic(Strip(RStrip(RStrip(text, {":"}), {"-"}))), 1)
             ELSE 0

\* MatchParagraph on the paragraphs of the pool, computed once
MatchMemo == [p \in {<<q.text, q.style>> : q \in PoolParagraphs} |-> MatchParagraph(p[1], p[2])]

\* lines 444-469
CreditParagraph(candidates, para) ==
    LET n == MatchMemo[<<para.text, para.style>>]
        known == KNOWN_ANCHORS[n]
        old == GetDefault(candidates, known, [count |-> 0, variants |-> <<>>, styles |-> {}])
    IN  IF n = 0 THEN candidates
        ELSE Put(candidates, known,
                 [count |-> old.count + 1,
                  variants |-> AppendNew(old.variants, Strip(para.text)),
                  styles |-> old.styles \cup {para.style}])

RECURSIVE CreditParagraphs(_, _, _)
CreditParagraphs(candidates, paragraphs, n) ==
    IF n > Len(paragraphs) THEN candidates
    ELSE CreditParagraphs(CreditParagraph(candidates, paragraphs[n]), paragraphs, n + 1)

RECURSIVE HeadingCandidates(_, _, _)
\* lines 440-469
HeadingCandidates(candidates, profiles, n) ==
    IF n > Len(profiles) THEN candidates
    ELSE HeadingCandidates(CreditParagraphs(candidates, profiles[n].paragraphs, 1), profiles, n + 1)

\* Slug that keeps the first four characters of the name only
SlugOfFourCharacters(name) == Lower(Prefix(name, 4))

\* anchor_name.lower().replace(" ", "_")
Slug(name) == ReplaceChars(Lower(name), {" "}, "_")

\* the ids of the vocabulary entries, computed once
SlugMemo == [n \in DOMAIN KNOWN_ANCHORS |-> Slug(KNOWN_ANCHORS[n])]

\* OrderOf when the table of positions is empty: every id gets 999
OrderOfUnknown(id) == 999

\* order.get(id, 999) of lines 488-489: a later entry with the same id
\* overwrites an earlier one; positions count from 0
OrderOf(id) ==
    LET at == {i \in DOMAIN KNOWN_ANCHORS : SlugMemo[i] = id}
    IN  IF at = {} THEN 999
        ELSE (CHOOSE i \in at : \A j \in at : j <= i) - 1

\* count >= total_docs * 0.5
AtLeastHalf(count, total_docs) == 2 * count >= total_docs

\* lines 477-485
Anchor(anchor_name, data, total_docs, order) ==
    [id |-> Slug(anchor_name),
     canonical_text |-> anchor_name,
     match_mode |-> "fuzzy",
     min_similarity |-> AnchorSimilarityThreshold,
     variants_seen |-> Prefix(data.variants, 5),
     occurrence_rate |-> [num |-> data.count, den |-> total_docs],
     styles |-> ListOfSet(data.styles, order)]

find_anchors(profiles, classification, order) ==
    LET heading_candidates == HeadingCandidates(<<>>, profiles, 1)
        total_docs == Len(profiles)
        kept == SelectSeq(heading_candidates, LAMBDA e : AtLeastHalf(e.val.count, total_docs))
        anchors == [i \in DOMAIN kept |-> Anchor(kept[i].key, kept[i].val, total_docs, order)]
        sorted == StableSort([i \in DOMAIN anchors |->
                                 [sortkey |-> <<OrderOf(anchors[i].id)>>, anchor |-> anchors[i]]])
    IN  [i \in DOMAIN sorted |-> sorted[i].anchor]

\* BelowFourFifths with one half for four fifths
BelowHalf(rate) == 2 * rate.num < rate.den

\* rate < 0.8
BelowFourFifths(rate) == 10 * rate.num < 8 * rate.den

\* lines 504-511
FixedNode(anchor) ==
    [type |-> "fixed",
     id |-> anchor.id \o <<"_","h","e","a","d","i","n","g">>,
     paragraphs |-> <<[text |-> anchor.canonical_text,
                       style |-> IF anchor.styles # <<>> THEN anchor.styles[1]
                                 ELSE StyleHeading1]>>]

\* lines 514-521
SlotNode(anchor) ==
    [type |-> "slot",
     slot_id |-> anchor.id \o <<"_","b","o","d","y">>,
     section_name |-> anchor.canonical_text,
     allowed_styles |-> <<"BODY", "BULLET">>,
     list_behavior |-> "bullets_allowed",
     optional |-> BelowFourFifths(anchor.occurrence_rate)]

\* build_skeleton_from with the two appends of the loop body exchanged
build_skeleton_slot_first(anchors, n) ==
    [k \in 1..(2 * (Len(anchors) - n + 1)) |->
        IF k % 2 = 1 THEN SlotNode(anchors[n + (k - 1) \div 2])
        ELSE FixedNode(anchors[n + (k - 1) \div 2])]

RECURSIVE build_skeleton_from(_, _)
build_skeleton_from(anchors, n) ==
    IF n > Len(anchors) THEN <<>>
    ELSE <<FixedNode(anchors[n]), SlotNode(anchors[n])>> \o build_skeleton_from(anchors, n + 1)

build_skeleton(profiles, anchors, classification) == build_skeleton_from(anchors, 1)

(***************************************************************************)
(* Phase 4: style roles, header and footer                                 *)
(***************************************************************************)
\* d[k] += 1 on a defaultdict(int)
Increment(d, k) == Put(d, k, GetDefault(d, k, 0) + 1)

\* lines 541-549: tallies is [heading, body, list]
TallyParagraph(tallies, para) ==
    LET style == para.style
        text == Strip(para.text)
    IN  IF Contains(<<"H","e","a","d","i","n","g">>, style) \/ style \in {StyleTitle, StyleSubtitle}
        THEN [tallies EXCEPT !.heading = Increment(@, style)]
        ELSE IF para.is_list
        THEN [tallies EXCEPT !.list = Increment(@, style)]
        ELSE IF text # <<>> /\ Len(text) > 20
        THEN [tallies EXCEPT !.body = Increment(@, style)]
        ELSE tallies

RECURSIVE TallyParagraphs(_, _, _)
TallyParagraphs(tallies, paragraphs, n) ==
    IF n > Len(paragraphs) THEN tallies
    ELSE TallyParagraphs(TallyParagraph(tallies, paragraphs[n]), paragraphs, n + 1)

RECURSIVE TallyProfiles(_, _, _)
\* lines 539-549
TallyProfiles(tallies, profiles, n) ==
    IF n > Len(profiles) THEN tallies
    ELSE TallyProfiles(TallyParagraphs(tallies, profiles[n].paragraphs, 1), profiles, n + 1)

\* FirstMaxKey that returns the first key, whatever the values
FirstKey(d) == d[1].key

\* max(d.items(), key=lambda x: x[1])[0]: the first key of the largest value
FirstMaxKey(d) ==
    d[CHOOSE i \in DOMAIN d :
        /\ \A j \in DOMAIN d : d[j].val <= d[i].val
        /\ \A j \in 1..(i - 1) : d[j].val < d[i].val].key

\* lines 552-555
most_common(d, default) == IF d = <<>> THEN default ELSE FirstMaxKey(d)

extract_style_roles(profiles) ==
    LET tallies == TallyProfiles([heading |-> <<>>, body |-> <<>>, list |-> <<>>], profiles, 1)
        containing(c) == SelectSeq(tallies.heading, LAMBDA e : Contains(<<c>>, e.key))
    IN  [H1 |-> most_common(containing("1"), StyleHeading1),
         H2 |-> most_common(containing("2"), StyleHeading2),
         H3 |-> most_common(containing("3"), StyleHeading3),
         BODY |-> most_common(tallies.body, StyleNormal),
         BULLET |-> most_common(tallies.list, StyleListBullet),
         TITLE |-> most_common(SelectSeq(tallies.heading, LAMBDA e : e.key = StyleTitle),
                               StyleTitle)]

RECURSIVE TallyTexts(_, _, _)
\* for h in all_headers: header_counts[h] += 1
TallyTexts(counts, texts, n) ==
    IF n > Len(texts) THEN counts
    ELSE TallyTexts(Increment(counts, texts[n]), texts, n + 1)

RECURSIVE AllHeaders(_, _, _)
\* lines 574-576
AllHeaders(profiles, part, n) ==
    IF n > Len(profiles) THEN <<>>
    ELSE (IF part = "header" THEN profiles[n].headers ELSE profiles[n].footers)
         \o AllHeaders(profiles, part, n + 1)

extract_kopfzeile(profiles) ==
    LET header_counts == TallyTexts(<<>>, AllHeaders(profiles, "header", 1), 1)
        footer_counts == TallyTexts(<<>>, AllHeaders(profiles, "footer", 1), 1)
        keys(d) == [i \in DOMAIN d |-> d[i].key]
    IN  [header |-> most_common(header_counts, <<>>),
         footer |-> most_common(footer_counts, <<>>),
         header_variants |-> Prefix(keys(header_counts), 5),
         footer_variants |-> Prefix(keys(footer_counts), 5)]

(***************************************************************************)
(* Phase 5: the template spec                                              *)
(***************************************************************************)
\* build_template_spec with the two counts of quality_metrics exchanged
build_template_spec_counts_exchanged(profiles, classification, anchors, skeleton, style_roles, kopfzeile, now) ==
    [version |-> "1.0",
     created_at |-> now,
     family_id |-> "default",
     family_name |-> "Default Template",
     anchors |-> anchors,
     skeleton |-> skeleton,
     style_roles |-> style_roles,
     kopfzeile |-> [content |-> kopfzeile.header, variants |-> kopfzeile.header_variants],
     fusszeile |-> [content |-> kopfzeile.footer, variants |-> kopfzeile.footer_variants],
     render_rules |-> [spacing_after_heading |-> 12, spacing_after_paragraph |-> 6,
                       blank_line_before_section |-> TRUE],
     quality_metrics |-> [documents_analyzed |-> Len(profiles),
                          fixed_blocks_found |-> Len(anchors),
                          variable_blocks_found |-> Len(classification.variable),
                          anchors_detected |-> Len(classification.fixed),
                          boilerplate_threshold |-> BoilerplateThreshold]]

\* now is datetime.now(); family_id and family_name keep their defaults
build_template_spec(profiles, classification, anchors, skeleton, style_roles, kopfzeile, now) ==
    [version |-> "1.0",
     created_at |-> now,
     family_id |-> "default",
     family_name |-> "Default Template",
     anchors |-> anchors,
     skeleton |-> skeleton,
     style_roles |-> style_roles,
     kopfzeile |-> [content |-> kopfzeile.header, variants |-> kopfzeile.header_variants],
     fusszeile |-> [content |-> kopfzeile.footer, variants |-> kopfzeile.footer_variants],
     render_rules |-> [spacing_after_heading |-> 12, spacing_after_paragraph |-> 6,
                       blank_line_before_section |-> TRUE],
     quality_metrics |-> [documents_analyzed |-> Len(profiles),
                          fixed_blocks_found |-> Len(classification.fixed),
                          variable_blocks_found |-> Len(classification.variable),
                          anchors_detected |-> Len(anchors),
                          boilerplate_threshold |-> BoilerplateThreshold]]

(***************************************************************************)
(* State                                                                   *)
(***************************************************************************)
\* the most files the input folder holds
MaxFiles == 3

\* the most documents given to the stage functions when they are called directly
MaxCorpus == 5

\* the most documents of a corpus detect_sequences is called on directly
MaxSequenceCorpus == 2

\* the values of boilerplate_threshold tried, in hundredths
Thresholds == {0, 50, 80, 85, 100}

\* the readings of the clock
Clock == {"t1", "t2"}

VARIABLES
    pc,                 \* the next block of extract_template, or the next direct call
    docx_files,         \* the files of the input folder, in glob order
    next_file,          \* the position of the ingest loop in docx_files
    profiles,           \* the list profiles
    error_log,          \* positions of the files an "ERROR processing" line names
    output_files,       \* the files written to the output folder
    fingerprint_counts,
    threshold,          \* the threshold classify_paragraphs was called with
    classification,
    sequences,
    anchors,
    skeleton,
    style_roles,
    kopfzeile,
    template_spec,      \* <<the spec>> once built
    returned,           \* what extract_template returned
    typed,              \* the string given to normalize_basic
    normalized          \* the results of normalize_basic so far, oldest first

vars == <<pc, docx_files, next_file, profiles, error_log, output_files, fingerprint_counts,
          threshold, classification, sequences, anchors, skeleton, style_roles, kopfzeile,
          template_spec, returned, typed, normalized>>

phase2_vars == <<fingerprint_counts, threshold, classification>>

later_vars == <<sequences, anchors, skeleton, style_roles, kopfzeile, template_spec>>

FileLists == UNION {[1..n -> FilePool] : n \in 0..MaxFiles}

Unset ==
    /\ next_file = 1
    /\ profiles = <<>>
    /\ error_log = {}
    /\ output_files = {}
    /\ fingerprint_counts = <<>>
    /\ threshold = BoilerplateThreshold
    /\ classification = [fixed |-> <<>>, variable |-> <<>>]
    /\ sequences = <<>>
    /\ anchors = <<>>
    /\ skeleton = <<>>
    /\ style_roles = <<>>
    /\ kopfzeile = <<>>
    /\ template_spec = <<>>
    /\ returned = "nothing"
    /\ typed = <<>>
    /\ normalized = <<>>

(***************************************************************************)
(* extract_template                                                        *)
(***************************************************************************)
Init ==
    /\ pc = "start"
    /\ docx_files \in FileLists
    /\ Unset

\* lines 658-668
FindFiles ==
    /\ pc = "start"
    /\ IF docx_files = <<>>
       THEN pc' = "done" /\ returned' = "None"
       ELSE pc' = "ingest" /\ UNCHANGED returned
    /\ UNCHANGED <<docx_files, next_file, profiles, error_log, output_files, phase2_vars, later_vars>>
    /\ UNCHANGED <<typed, normalized>>

\* lines 675-687, one file.  An exception of the parse, or of the write of the
\* profile after the append, is caught and logged.
ProcessFile ==
    /\ pc = "ingest"
    /\ next_file <= Len(docx_files)
    /\ LET file == docx_files[next_file]
       IN  IF IsCorrupt(file)
           THEN /\ error_log' = error_log \cup {next_file}
                /\ UNCHANGED <<profiles, output_files>>
           ELSE \E order \in Orderings(DocHeaderTexts(file)), written \in BOOLEAN :
                /\ profiles' = Append(profiles, add_normalizations(parse_docx_to_profile(file, order)))
                /\ IF written
                   THEN /\ output_files' = output_files \cup {<<"doc_profiles", next_file>>}
                        /\ UNCHANGED error_log
                   ELSE /\ error_log' = error_log \cup {next_file}
                        /\ UNCHANGED output_files
    /\ next_file' = next_file + 1
    /\ UNCHANGED <<pc, docx_files, phase2_vars, later_vars, returned>>
    /\ UNCHANGED <<typed, normalized>>

\* lines 689-693
CheckProfiles ==
    /\ pc = "ingest"
    /\ next_file > Len(docx_files)
    /\ IF profiles = <<>>
       THEN pc' = "done" /\ returned' = "None"
       ELSE pc' = "phase2" /\ UNCHANGED returned
    /\ UNCHANGED <<docx_files, next_file, profiles, error_log, output_files, phase2_vars, later_vars>>
    /\ UNCHANGED <<typed, normalized>>

\* lines 695-705
DetectBoilerplate ==
    /\ pc = "phase2"
    \* every set of styles of the table holds one style, the one in the
    \* fingerprint: its list is the same in every iteration order
    /\ LET order == CHOOSE o \in Orderings(PoolStyles) : TRUE
       IN
         /\ fingerprint_counts' = compute_fingerprint_counts(profiles, order)
         /\ classification' = classify_paragraphs(fingerprint_counts', Len(profiles),
                                                  BoilerplateThreshold)
    /\ threshold' = BoilerplateThreshold
    /\ output_files' = output_files \cup {<<"classification.json", 0>>}
    /\ pc' = "sequences"
    /\ UNCHANGED <<docx_files, next_file, profiles, error_log, later_vars, returned>>
    /\ UNCHANGED <<typed, normalized>>

\* fixed_fps = set(classification["fixed"].keys())
FixedFingerprints(c) == Keys(c.fixed)

\* lines 707-713
DetectSequences ==
    /\ pc = "sequences"
    /\ sequences' = detect_sequences(profiles, FixedFingerprints(classification))
    /\ output_files' = output_files \cup {<<"sequences.json", 0>>}
    /\ pc' = "phase3"
    /\ UNCHANGED <<docx_files, next_file, profiles, error_log, phase2_vars, anchors, skeleton,
                   style_roles, kopfzeile, template_spec, returned>>
    /\ UNCHANGED <<typed, normalized>>

\* lines 715-720
BuildSkeleton ==
    /\ pc = "phase3"
    \* the sets of styles of the candidates hold the styles of credited
    \* paragraphs only
    /\ \E order \in Orderings({p.style : p \in {q \in PoolParagraphs :
                                                  MatchMemo[<<q.text, q.style>>] # 0}}) :
         /\ anchors' = find_anchors(profiles, classification, order)
         /\ skeleton' = build_skeleton(profiles, anchors', classification)
    /\ pc' = "phase4"
    /\ UNCHANGED <<docx_files, next_file, profiles, error_log, output_files, phase2_vars,
                   sequences, style_roles, kopfzeile, template_spec, returned>>
    /\ UNCHANGED <<typed, normalized>>

\* ExtractStyles when extract_style_roles trims para["text"] in place
ExtractStylesTrimmingInPlace ==
    /\ pc = "phase4"
    /\ style_roles' = extract_style_roles(profiles)
    /\ kopfzeile' = extract_kopfzeile(profiles)
    /\ profiles' = [i \in DOMAIN profiles |->
                       [profiles[i] EXCEPT !.paragraphs =
                           [k \in DOMAIN @ |-> [@[k] EXCEPT !.text = Strip(@)]]]]
    /\ pc' = "phase5"
    /\ UNCHANGED <<docx_files, next_file, error_log, output_files, phase2_vars,
                   sequences, anchors, skeleton, template_spec, returned>>
    /\ UNCHANGED <<typed, normalized>>

\* lines 722-726
ExtractStyles ==
    /\ pc = "phase4"
    /\ style_roles' = extract_style_roles(profiles)
    /\ kopfzeile' = extract_kopfzeile(profiles)
    /\ pc' = "phase5"
    /\ UNCHANGED <<docx_files, next_file, profiles, error_log, output_files, phase2_vars,
                   sequences, anchors, skeleton, template_spec, returned>>
    /\ UNCHANGED <<typed, normalized>>

\* lines 728-743
WriteTemplateSpec ==
    /\ pc = "phase5"
    /\ \E now \in Clock :
         template_spec' = <<build_template_spec(profiles, classification, anchors, skeleton,
                                                style_roles, kopfzeile, now)>>
    /\ output_files' = output_files \cup {<<"template_spec.json", 0>>}
    /\ returned' = "template_spec"
    /\ pc' = "done"
    /\ UNCHANGED <<docx_files, next_file, profiles, error_log, phase2_vars, sequences, anchors,
                   skeleton, style_roles, kopfzeile>>
    /\ UNCHANGED <<typed, normalized>>

Next ==
    \/ FindFiles
    \/ ProcessFile
    \/ CheckProfiles
    \/ DetectBoilerplate
    \/ DetectSequences
    \/ BuildSkeleton
    \/ ExtractStyles
    \/ WriteTemplateSpec

Spec == Init /\ [][Next]_vars

(***************************************************************************)
(* The phase 2 functions called directly, with any threshold               *)
(***************************************************************************)
InitClassify ==
    /\ pc = "collect"
    /\ docx_files = <<>>
    /\ Unset

\* one more document profile, built as extract_template builds it
AddProfile ==
    /\ pc = "collect"
    /\ Len(profiles) < MaxCorpus
    /\ \E docx \in DocPool : \E order \in Orderings(DocHeaderTexts(docx)) :
         profiles' = Append(profiles, add_normalizations(parse_docx_to_profile(docx, order)))
    /\ UNCHANGED <<pc, docx_files, next_file, error_log, output_files, phase2_vars, later_vars,
                   returned>>
    /\ UNCHANGED <<typed, normalized>>

CallComputeFingerprintCounts ==
    /\ pc = "collect"
    /\ LET order == CHOOSE o \in Orderings(PoolStyles) : TRUE
       IN  fingerprint_counts' = compute_fingerprint_counts(profiles, order)
    /\ pc' = "counted"
    /\ UNCHANGED <<docx_files, next_file, profiles, error_log, output_files, threshold,
                   classification, later_vars, returned>>
    /\ UNCHANGED <<typed, normalized>>

CallClassifyParagraphs ==
    /\ pc = "counted"
    /\ \E t \in Thresholds :
         /\ threshold' = t
         /\ classification' = classify_paragraphs(fingerprint_counts, Len(profiles), t)
    /\ pc' = "classified"
    /\ UNCHANGED <<docx_files, next_file, profiles, error_log, output_files, fingerprint_counts,
                   later_vars, returned>>
    /\ UNCHANGED <<typed, normalized>>

\* detect_sequences on the corpus just classified, as line 708 calls it
CallDetectSequences ==
    /\ pc = "classified"
    /\ Len(profiles) <= MaxSequenceCorpus
    /\ sequences' = detect_sequences(profiles, FixedFingerprints(classification))
    /\ pc' = "sequenced"
    /\ UNCHANGED <<docx_files, next_file, profiles, error_log, output_files, phase2_vars,
                   anchors, skeleton, style_roles, kopfzeile, template_spec, returned>>
    /\ UNCHANGED <<typed, normalized>>

\* build_template_spec on the classification, with no anchors
CallBuildTemplateSpec ==
    /\ pc = "sequenced"
    /\ \E now \in Clock :
         template_spec' = <<build_template_spec(profiles, classification, <<>>, <<>>,
                                                extract_style_roles(profiles),
                                                extract_kopfzeile(profiles), now)>>
    /\ pc' = "built"
    /\ UNCHANGED <<docx_files, next_file, profiles, error_log, output_files, phase2_vars,
                   sequences, anchors, skeleton, style_roles, kopfzeile, returned>>
    /\ UNCHANGED <<typed, normalized>>

NextClassify ==
    \/ AddProfile
    \/ CallComputeFingerprintCounts
    \/ CallClassifyParagraphs
    \/ CallDetectSequences
    \/ CallBuildTemplateSpec

SpecClassify == InitClassify /\ [][NextClassify]_vars

(***************************************************************************)
(* normalize_basic called on a string, and again on its result             *)
(***************************************************************************)
\* the longest string typed
MaxLen == 4

\* the characters typed: the kinds normalize_basic tells apart
Alphabet == {" ", "\n", "A", "b", "\"", "low9dquote", "low9squote", "endash"}

InitNormalize ==
    /\ pc = "typing"
    /\ docx_files = <<>>
    /\ Unset

TypeCharacter ==
    /\ pc = "typing"
    /\ Len(typed) < MaxLen
    /\ \E c \in Alphabet : typed' = Append(typed, c)
    /\ UNCHANGED <<pc, normalized, docx_files, next_file, profiles, error_log, output_files,
                   phase2_vars, later_vars, returned>>

\* normalize_basic(typed)
CallNormalizeBasic ==
    /\ pc = "typing"
    /\ normalized' = <<normalize_basic(typed)>>
    /\ pc' = "normalized"
    /\ UNCHANGED <<typed, docx_files, next_file, profiles, error_log, output_files,
                   phase2_vars, later_vars, returned>>

\* normalize_basic on the result of the call before
CallNormalizeBasicAgain ==
    /\ pc = "normalized"
    /\ normalized' = Append(normalized, normalize_basic(normalized[Len(normalized)]))
    /\ pc' = "renormalized"
    /\ UNCHANGED <<typed, docx_files, next_file, profiles, error_log, output_files,
                   phase2_vars, later_vars, returned>>

NextNormalize ==
    \/ TypeCharacter
    \/ CallNormalizeBasic
    \/ CallNormalizeBasicAgain

SpecNormalize == InitNormalize /\ [][NextNormalize]_vars

(***************************************************************************)
(* Properties                                                              *)
(***************************************************************************)
\* the paragraphs of all profiles
CorpusParagraphs == UNION {Range(profiles[i].paragraphs) : i \in DOMAIN profiles}

\* the documents that hold a paragraph with fingerprint fp
DocumentsWith(fp) ==
    {i \in DOMAIN profiles : \E para \in Range(profiles[i].paragraphs) : para.fingerprint = fp}

\* the documents that hold a paragraph credited to the vocabulary entry known
DocumentsMatching(known) ==
    {i \in DOMAIN profiles :
        \E para \in Range(profiles[i].paragraphs) :
            /\ MatchMemo[<<para.text, para.style>>] # 0
            /\ KNOWN_ANCHORS[MatchMemo[<<para.text, para.style>>]] = known}

\* ceil(total_docs * threshold), the threshold in hundredths
CeilCount(total_docs, t) == (total_docs * t + 99) \div 100

\* is_likely_patient_specific on the texts of the pool, computed once
CaseSpecificMemo == [t \in PoolTexts |-> is_likely_patient_specific(t)]

Classified == pc \in {"classified", "sequences", "phase3", "phase4", "phase5"}
                 \/ (pc = "done" /\ returned = "template_spec")

AnchorsFound == pc \in {"phase4", "phase5"} \/ (pc = "done" /\ returned = "template_spec")

IngestOver == pc \in {"phase2", "sequences", "phase3", "phase4", "phase5", "done"}

\* C1: a fingerprint is FIXED only if its document count is at least
\* ceil(total_documents * boilerplate_threshold); a fingerprint whose count
\* is below that ceiling is VARIABLE.
C1_FixedOnlyAtCeiling ==
    Classified =>
        /\ \A i \in DOMAIN classification.fixed :
               classification.fixed[i].val.occurrence_count >= CeilCount(Len(profiles), threshold)
        /\ \A i \in DOMAIN fingerprint_counts :
               fingerprint_counts[i].val.count < CeilCount(Len(profiles), threshold)
                   => fingerprint_counts[i].key \in Keys(classification.variable)

\* C2: with 5 documents and a paragraph longer than the floor in exactly 4
\* of them, threshold 0.85 classifies its fingerprint VARIABLE and threshold
\* 0.8 classifies it FIXED.
C2_FourOfFive ==
    (pc = "classified" /\ Len(profiles) = 5) =>
        \A i \in DOMAIN fingerprint_counts :
            LET e == fingerprint_counts[i]
            IN  (Cardinality(DocumentsWith(e.key)) = 4 /\ Len(e.val.examples[1]) >= MinTextLength) =>
                    /\ threshold = 85 => e.key \in Keys(classification.variable)
                    /\ threshold = 80 => e.key \in Keys(classification.fixed)

\* C3: a fingerprint all of whose occurrences are case-specific is never
\* classified FIXED.
C3_CaseSpecificNeverFixed ==
    Classified =>
        \A i \in DOMAIN classification.fixed :
            \E para \in CorpusParagraphs :
                /\ para.fingerprint = classification.fixed[i].key
                /\ ~CaseSpecificMemo[para.text]

\* C4: with fewer than 2 parsed documents extract_template returns no
\* template spec and never writes template_spec.json.
C4_FewerThanTwoFails ==
    (IngestOver /\ Len(profiles) < 2) =>
        /\ returned # "template_spec"
        /\ <<"template_spec.json", 0>> \notin output_files
        /\ pc = "done" => returned = "None"

\* C5: every file is processed whatever happened to the files before it,
\* and the corpus holds exactly the documents no error was logged for.
C5_CorpusIsTheUnloggedDocuments ==
    /\ pc = "ingest" => Len(profiles) = Cardinality((1..(next_file - 1)) \ error_log)
    /\ IngestOver => Len(profiles) = Cardinality((1..Len(docx_files)) \ error_log)

\* C6: for every fingerprint of the classification, FIXED or VARIABLE,
\* occurrence_rate is occurrence_count / total_documents, the count is the
\* number of documents holding the fingerprint, and 0 <= rate <= 1.
C6_RateIsCountOverTotal ==
    pc = "classified" =>
        \A e \in Range(classification.fixed) \cup Range(classification.variable) :
            /\ e.val.occurrence_rate = [num |-> e.val.occurrence_count, den |-> Len(profiles)]
            /\ e.val.occurrence_count = Cardinality(DocumentsWith(e.key))
            /\ e.val.occurrence_rate.den > 0
            /\ 0 <= e.val.occurrence_rate.num
            /\ e.val.occurrence_rate.num <= e.val.occurrence_rate.den

\* a classified corpus of several documents, one of which repeats a paragraph
C6_Witness ==
    /\ pc = "classified"
    /\ Len(profiles) >= 2
    /\ \E i \in DOMAIN profiles : \E m, n \in DOMAIN profiles[i].paragraphs :
           m # n /\ profiles[i].paragraphs[m].fingerprint = profiles[i].paragraphs[n].fingerprint
    /\ classification.fixed # <<>>
    /\ classification.variable # <<>>

\* C7: the occurrence_rate of every anchor is the fraction of the documents
\* that hold a matching paragraph, so it lies in [0, 1].
C7_AnchorRateIsFraction ==
    AnchorsFound =>
        \A i \in DOMAIN anchors :
            /\ anchors[i].occurrence_rate =
                   [num |-> Cardinality(DocumentsMatching(anchors[i].canonical_text)),
                    den |-> Len(profiles)]
            /\ anchors[i].occurrence_rate.num <= anchors[i].occurrence_rate.den

\* C8: for thresholds t1 <= t2 the FIXED set of t2 is a subset of the FIXED
\* set of t1, on the same fingerprint counts.
C8_ThresholdMonotone ==
    pc = "classified" =>
        \A t \in Thresholds :
            LET other == FixedFingerprints(classify_paragraphs(fingerprint_counts, Len(profiles), t))
            IN  /\ threshold <= t => other \subseteq FixedFingerprints(classification)
                /\ t <= threshold => FixedFingerprints(classification) \subseteq other

\* raising the threshold moved a fingerprint from FIXED to VARIABLE
C8_Witness ==
    /\ pc = "classified"
    /\ \E t \in Thresholds :
           /\ threshold < t
           /\ FixedFingerprints(classify_paragraphs(fingerprint_counts, Len(profiles), t))
                  # FixedFingerprints(classification)
           /\ FixedFingerprints(classify_paragraphs(fingerprint_counts, Len(profiles), t)) # {}

\* C9: a paragraph whose text equals a vocabulary entry is credited to that
\* entry, not to another one.
C9_ExactEntryMatchesItself ==
    AnchorsFound =>
        \A para \in CorpusParagraphs : \A n \in DOMAIN KNOWN_ANCHORS :
            para.text = KNOWN_ANCHORS[n] => MatchMemo[<<para.text, para.style>>] = n

\* C10: an anchor is returned only if at least half of the documents hold a
\* paragraph matching it.
C10_AnchorInHalfOfDocuments ==
    AnchorsFound =>
        \A i \in DOMAIN anchors :
            2 * Cardinality(DocumentsMatching(anchors[i].canonical_text)) >= Len(profiles)

\* the position of a canonical text in the vocabulary, 0 when it is no entry
VocabularyPosition(text) ==
    IF \E n \in DOMAIN KNOWN_ANCHORS : KNOWN_ANCHORS[n] = text
    THEN CHOOSE n \in DOMAIN KNOWN_ANCHORS : KNOWN_ANCHORS[n] = text
    ELSE 0

\* C11: the anchors returned by find_anchors are vocabulary entries in
\* strictly increasing vocabulary position, so each entry occurs at most
\* once, whatever the order of the documents and their paragraphs.
C11_AnchorsInVocabularyOrder ==
    AnchorsFound =>
        /\ \A i \in DOMAIN anchors : VocabularyPosition(anchors[i].canonical_text) > 0
        /\ \A i, j \in DOMAIN anchors :
               i < j => VocabularyPosition(anchors[i].canonical_text)
                            < VocabularyPosition(anchors[j].canonical_text)

\* two anchors are returned and the corpus meets them in the opposite order
C11_Witness ==
    /\ AnchorsFound
    /\ Len(anchors) >= 2
    /\ LET met == HeadingCandidates(<<>>, profiles, 1)
       IN  VocabularyPosition(met[1].key) > VocabularyPosition(met[2].key)

\* C12: the skeleton is one (fixed heading node, slot node) pair per anchor,
\* in anchor order: twice as long as the anchor list, fixed nodes at the 1st,
\* 3rd, ... place and slot nodes at the 2nd, 4th, ..., each slot named after
\* the anchor of the fixed node just before it.
C12_SkeletonIsHeadingSlotPairs ==
    AnchorsFound =>
        /\ Len(skeleton) = 2 * Len(anchors)
        /\ \A k \in DOMAIN anchors :
               LET heading == skeleton[2 * k - 1]
                   slot == skeleton[2 * k]
               IN  /\ heading.type = "fixed"
                   /\ slot.type = "slot"
                   /\ heading.id = anchors[k].id \o <<"_","h","e","a","d","i","n","g">>
                   /\ Len(heading.paragraphs) = 1
                   /\ heading.paragraphs[1].text = anchors[k].canonical_text
                   /\ slot.slot_id = anchors[k].id \o <<"_","b","o","d","y">>
                   /\ slot.section_name = heading.paragraphs[1].text

\* a skeleton of at least two pairs
C12_Witness == AnchorsFound /\ Len(skeleton) >= 4

\* C13: a slot is optional exactly when the occurrence_rate of its anchor is
\* below 0.8, and its allowed styles are BODY and BULLET.
C13_SlotOptionalBelowFourFifths ==
    AnchorsFound =>
        \A k \in DOMAIN skeleton :
            skeleton[k].type = "slot" =>
                /\ \E i \in DOMAIN anchors :
                       /\ anchors[i].canonical_text = skeleton[k].section_name
                       /\ skeleton[k].optional
                              <=> (10 * anchors[i].occurrence_rate.num
                                      < 8 * anchors[i].occurrence_rate.den)
                /\ skeleton[k].allowed_styles = <<"BODY", "BULLET">>

\* a skeleton with an optional slot and a slot that is not optional
C13_Witness ==
    /\ AnchorsFound
    /\ \E k \in DOMAIN skeleton : skeleton[k].type = "slot" /\ skeleton[k].optional
    /\ \E k \in DOMAIN skeleton : skeleton[k].type = "slot" /\ ~skeleton[k].optional

\* the paragraphs the vocabulary entry known is credited with
ParagraphsMatching(known) ==
    {para \in CorpusParagraphs :
        /\ MatchMemo[<<para.text, para.style>>] # 0
        /\ KNOWN_ANCHORS[MatchMemo[<<para.text, para.style>>]] = known}

\* C14: every fixed node of the skeleton is backed by a FIXED fingerprint: its
\* heading is an anchor that some paragraph classified FIXED matches, and the
\* style of the node is not taken from paragraphs classified VARIABLE only.
C14_FixedNodeBackedByFixedFingerprint ==
    AnchorsFound =>
        \A k \in DOMAIN skeleton :
            skeleton[k].type = "fixed" =>
                \E para \in ParagraphsMatching(skeleton[k].paragraphs[1].text) :
                    para.fingerprint \in FixedFingerprints(classification)

SequencesFound == pc \in {"phase3", "phase4", "phase5"}
                     \/ (pc = "done" /\ returned = "template_spec")

\* C15: every sequence detect_sequences returns has 2 to 5 elements and all
\* of them, not only the first, are fingerprints classified FIXED.
C15_SequenceOfFixedFingerprints ==
    SequencesFound =>
        \A k \in DOMAIN sequences :
            /\ Len(sequences[k].sequence) \in 2..5
            /\ \A j \in DOMAIN sequences[k].sequence :
                   sequences[k].sequence[j] \in FixedFingerprints(classification)

\* the documents whose paragraphs hold the fingerprints of seq side by side,
\* in the order of seq
DocumentsWithSequence(seq) ==
    {i \in DOMAIN profiles :
        \E at \in 0..(Len(profiles[i].paragraphs) - Len(seq)) :
            \A j \in DOMAIN seq : profiles[i].paragraphs[at + j].fingerprint = seq[j]}

\* C16: every sequence returned occurs, contiguously and in order, in at
\* least the boilerplate_threshold fraction of the documents, each document
\* counted once, and its rate does not exceed 1.
C16_SequenceInThresholdOfDocuments ==
    SequencesFound =>
        \A k \in DOMAIN sequences :
            /\ 100 * Cardinality(DocumentsWithSequence(sequences[k].sequence))
                   >= BoilerplateThreshold * Len(profiles)
            /\ sequences[k].count = Cardinality(DocumentsWithSequence(sequences[k].sequence))
            /\ sequences[k].rate.num <= sequences[k].rate.den

\* the fingerprints of a table of counts, each with its count
CountOfEach(table) == {<<table[i].key, table[i].val.count>> : i \in DOMAIN table}

\* the list with the documents at the places i and j exchanged
Exchanged(list, i, j) ==
    [k \in DOMAIN list |-> IF k = i THEN list[j] ELSE IF k = j THEN list[i] ELSE list[k]]

\* one iteration order of the styles
SomeStyleOrder == CHOOSE order \in Orderings(PoolStyles) : TRUE

\* C17: compute_fingerprint_counts yields the same fingerprints with the same
\* counts when any two documents of the list change places; every
\* permutation of the list is a succession of such exchanges, and every list
\* of documents is a corpus here.
C17_CountsIndependentOfOrder ==
    pc \in {"counted", "sequences"} =>
        \A i, j \in DOMAIN profiles :
            i < j => CountOfEach(compute_fingerprint_counts(Exchanged(profiles, i, j), SomeStyleOrder))
                         = CountOfEach(fingerprint_counts)

\* an exchange of two documents changes the order of the keys of the table
C17_Witness ==
    /\ pc \in {"counted", "sequences"}
    /\ Len(profiles) >= 3
    /\ \E i, j \in DOMAIN profiles :
           /\ i < j
           /\ Keys(compute_fingerprint_counts(Exchanged(profiles, i, j), SomeStyleOrder)) = Keys(fingerprint_counts)
           /\ [k \in DOMAIN fingerprint_counts |-> fingerprint_counts[k].key]
                  # [k \in DOMAIN fingerprint_counts |->
                        compute_fingerprint_counts(Exchanged(profiles, i, j), SomeStyleOrder)[k].key]
    /\ \E k \in DOMAIN fingerprint_counts : fingerprint_counts[k].val.count >= 2

\* the header and footer texts of the pool
PoolHeaderTexts == UNION {DocHeaderTexts(d) : d \in DocPool}

\* lines 675-733 as one run over the files: header_order, count_order and
\* anchor_order are the iteration orders of the sets of this run and now is
\* its clock
RunOf(files, header_order, count_order, anchor_order, now) ==
    LET readable == SelectSeq(files, LAMBDA f : ~IsCorrupt(f))
        ps == [i \in DOMAIN readable |->
                  add_normalizations(parse_docx_to_profile(readable[i], header_order))]
        c == classify_paragraphs(compute_fingerprint_counts(ps, count_order), Len(ps),
                                 BoilerplateThreshold)
        a == find_anchors(ps, c, anchor_order)
    IN  build_template_spec(ps, c, a, build_skeleton(ps, a, c), extract_style_roles(ps),
                            extract_kopfzeile(ps), now)

\* C18: two runs over the same documents in the same order produce the same
\* template spec, field by field: every other run over the files of this run
\* returns what this run returned.
C18_SameInputSameOutput ==
    (pc = "done" /\ returned = "template_spec") =>
        \A header_order \in Orderings(PoolHeaderTexts) :
            \A count_order, anchor_order \in Orderings(PoolStyles) :
                \A now \in Clock :
                    RunOf(docx_files, header_order, count_order, anchor_order, now)
                        = template_spec[1]

\* no fingerprint is FIXED, or no anchor is matched
Degenerate ==
    \/ pc \in {"sequences", "phase3"} /\ classification.fixed = <<>>
    \/ pc \in {"phase4", "phase5"} /\ (classification.fixed = <<>> \/ anchors = <<>>)

\* C20: a run with no FIXED fingerprint or no anchor is not aborted: it has
\* not returned before the last stage, and once it has ended it has returned
\* and written the template spec, the skeleton is empty when there are no
\* anchors, and quality_metrics reports the numbers of fixed blocks and of
\* anchors, the latter half the length of the skeleton.
C20_DegenerateRunStillEmits ==
    /\ Degenerate => returned = "nothing"
    /\ (pc = "done" /\ profiles # <<>>) =>
           /\ returned = "template_spec"
           /\ <<"template_spec.json", 0>> \in output_files
           /\ LET t == template_spec[1]
              IN  /\ t.quality_metrics.fixed_blocks_found = Len(classification.fixed)
                  /\ t.quality_metrics.anchors_detected = Len(t.anchors)
                  /\ 2 * t.quality_metrics.anchors_detected = Len(t.skeleton)
                  /\ t.anchors = anchors
                  /\ anchors = <<>> => t.skeleton = <<>>

\* a finished run of three documents none of whose fingerprints is FIXED
C20_Witness ==
    /\ pc = "done"
    /\ returned = "template_spec"
    /\ classification.fixed = <<>>
    /\ template_spec[1].quality_metrics.fixed_blocks_found = 0
    /\ template_spec[1].quality_metrics.anchors_detected > 0

\* C19: normalize_basic is idempotent: applied to its own result it returns
\* that result.
C19_NormalizeBasicIdempotent ==
    pc = "renormalized" => normalized[2] = normalized[1]

\* a string that normalize_basic changes in case, in its white space, in a
\* quote or in a dash has been normalized twice
C19_Witness ==
    /\ pc = "renormalized"
    /\ Len(normalized[1]) < Len(typed)
    /\ \E i \in DOMAIN typed : typed[i] \in DoubleQuoteClass \cup SingleQuoteClass \cup DashClass
    /\ \E i \in DOMAIN typed : typed[i] = "A"
    /\ \E i \in DOMAIN normalized[1] : normalized[1][i] = " "

\* the corpus with the paragraphs of its last document written a second
\* time; every pool document is the last one of some corpus
Repeated(list) ==
    IF list = <<>> THEN list ELSE [list EXCEPT ![Len(list)].paragraphs = @ \o @]

\* C21: after compute_fingerprint_counts the table holds exactly the
\* fingerprints of the corpus, the count of each is the number of documents
\* that hold a paragraph with it, and writing the paragraphs of a document
\* a second time leaves every count as it is.
C21_CountIsDocumentsHolding ==
    pc = "counted" =>
        /\ {fingerprint_counts[k].key : k \in DOMAIN fingerprint_counts}
               = {para.fingerprint : para \in CorpusParagraphs}
        /\ \A k \in DOMAIN fingerprint_counts :
               fingerprint_counts[k].val.count = Cardinality(DocumentsWith(fingerprint_counts[k].key))
        /\ CountOfEach(compute_fingerprint_counts(Repeated(profiles), SomeStyleOrder))
               = CountOfEach(fingerprint_counts)

\* the counts of a corpus in which a fingerprint occurs more often than it
\* has documents, and in more than one document
C21_Witness ==
    /\ pc = "counted"
    /\ \E k \in DOMAIN fingerprint_counts :
           /\ fingerprint_counts[k].val.count >= 2
           /\ fingerprint_counts[k].val.count < Len(profiles)
           /\ \E i \in DOMAIN profiles : \E m, n \in DOMAIN profiles[i].paragraphs :
                  /\ m < n
                  /\ profiles[i].paragraphs[m].fingerprint = fingerprint_counts[k].key
                  /\ profiles[i].paragraphs[n].fingerprint = fingerprint_counts[k].key

\* C22: a paragraph whose text is empty once trimmed stays in the paragraph
\* list of its document, but its fingerprint has no entry in the table of
\* counts, is not FIXED and is no element of a detected sequence.
C22_EmptyParagraphNotFingerprinted ==
    /\ IngestOver =>
           \A i \in DOMAIN profiles : \E docx \in DocPool :
               [k \in DOMAIN profiles[i].paragraphs |-> profiles[i].paragraphs[k].text]
                   = [k \in DOMAIN docx.paragraphs |-> docx.paragraphs[k].text]
    /\ \A para \in CorpusParagraphs :
           Strip(para.text) = <<>> =>
               /\ Classified =>
                      /\ para.fingerprint \notin Keys(fingerprint_counts)
                      /\ para.fingerprint \notin Keys(classification.fixed)
               /\ SequencesFound =>
                      \A k \in DOMAIN sequences :
                          para.fingerprint \notin Range(sequences[k].sequence)

\* the text find_anchors compares with the vocabulary: trimmed, without the
\* colons and dashes at its end, normalized
CandidateText(text) == normalize_basic(Strip(RStrip(RStrip(Strip(text), {":"}), {"-"})))

\* a paragraph find_anchors takes for a possible heading
IsCandidate(text, style) ==
    /\ Strip(text) # <<>>
    /\ Len(Strip(text)) <= 100
    /\ \/ Contains(<<"H","e","a","d","i","n","g">>, style)
       \/ style \in {StyleTitle, StyleSubtitle}
       \/ Len(Strip(text)) < 60

\* for each paragraph of the pool, the vocabulary entries its text reaches
\* the similarity threshold with, none for a paragraph that is no candidate
EntriesReached ==
    [p \in {<<q.text, q.style>> : q \in PoolParagraphs} |->
        IF IsCandidate(p[1], p[2])
        THEN {n \in DOMAIN KNOWN_ANCHORS :
                 SimilarEnough(levenshtein_similarity(CandidateText(p[1]), KnownNormalized[n]))}
        ELSE {}]

\* the earliest of these entries, 0 when there is none
EarliestReached ==
    [p \in DOMAIN EntriesReached |->
        IF EntriesReached[p] = {} THEN 0
        ELSE CHOOSE n \in EntriesReached[p] : \A m \in EntriesReached[p] : n <= m]

\* the places of the corpus: document and paragraph
Places == UNION {{i} \X DOMAIN profiles[i].paragraphs : i \in DOMAIN profiles}

\* the earliest entry reached by the paragraph at a place
EarliestAt(pl) ==
    EarliestReached[<<profiles[pl[1]].paragraphs[pl[2]].text, profiles[pl[1]].paragraphs[pl[2]].style>>]

\* the places whose paragraph has the entry n for its earliest entry
CreditedTo(n) == {pl \in Places : EarliestAt(pl) = n}

\* C23: every candidate paragraph is credited to one vocabulary entry at
\* most, the earliest in the order of KNOWN_ANCHORS that reaches the
\* threshold: the anchors are the entries with enough paragraphs credited
\* in this way, and each counts exactly those paragraphs, whatever the
\* similarity of a later entry.
C23_FirstMatchWins ==
    pc = "phase4" =>
        LET credited == {EarliestAt(pl) : pl \in Places} \ {0}
        IN  /\ {anchors[a].canonical_text : a \in DOMAIN anchors}
                   = {KNOWN_ANCHORS[n] : n \in {m \in credited :
                          AtLeastHalf(Cardinality(CreditedTo(m)), Len(profiles))}}
            /\ \A a \in DOMAIN anchors : \A n \in credited :
                   KNOWN_ANCHORS[n] = anchors[a].canonical_text =>
                       anchors[a].occurrence_rate.num = Cardinality(CreditedTo(n))

\* an anchor credited with a paragraph that a later entry of the vocabulary
\* is more similar to
C23_Witness ==
    /\ pc = "phase4"
    /\ \E a \in DOMAIN anchors : \E pl \in Places :
           LET text == profiles[pl[1]].paragraphs[pl[2]].text
               reached == EntriesReached[<<text, profiles[pl[1]].paragraphs[pl[2]].style>>]
               n == EarliestAt(pl)
           IN  /\ n # 0
               /\ KNOWN_ANCHORS[n] = anchors[a].canonical_text
               /\ \E later \in reached :
                      LET first == levenshtein_similarity(CandidateText(text), KnownNormalized[n])
                          second == levenshtein_similarity(CandidateText(text), KnownNormalized[later])
                      IN  n < later /\ second.num * first.den > first.num * second.den

\* C24: detect_sequences keeps an n-gram exactly when its count reaches the
\* least count classify_paragraphs derived from the threshold it was given,
\* whatever that threshold, and quality_metrics.boilerplate_threshold of the
\* template spec is that threshold.
C24_SequencesUseClassifierThreshold ==
    /\ pc \in {"sequenced", "built"} =>
           LET counted == CountSequences(<<>>, profiles, 1, FixedFingerprints(classification))
           IN  {sequences[k].sequence : k \in DOMAIN sequences}
                   = {counted[k].key : k \in {j \in DOMAIN counted :
                          counted[j].val.count >= MinCount(Len(profiles), threshold)}}
    /\ pc = "built" => template_spec[1].quality_metrics.boilerplate_threshold = threshold

\* C25: the list detect_sequences returns is ordered by the length of the
\* sequence, longest first, and among sequences of one length by count,
\* highest first.
C25_SequencesLongestThenMostFrequent ==
    pc = "phase3" =>
        \A k \in DOMAIN sequences : \A l \in DOMAIN sequences :
            k < l =>
                \/ Len(sequences[k].sequence) > Len(sequences[l].sequence)
                \/ /\ Len(sequences[k].sequence) = Len(sequences[l].sequence)
                   /\ sequences[k].count >= sequences[l].count

\* returned sequences of several lengths, two of one length with different
\* counts, the more frequent one found later in the documents than the other
C25_Witness ==
    /\ pc = "phase3"
    /\ \E k, l \in DOMAIN sequences : Len(sequences[k].sequence) # Len(sequences[l].sequence)
    /\ \E k, l \in DOMAIN sequences :
           LET counted == CountSequences(<<>>, profiles, 1, FixedFingerprints(classification))
           IN  /\ k < l
               /\ Len(sequences[k].sequence) = Len(sequences[l].sequence)
               /\ sequences[k].count > sequences[l].count
               /\ IndexOf(counted, sequences[k].sequence) > IndexOf(counted, sequences[l].sequence)

\* the readable files of the input folder, in the order of the profiles
ReadableFiles == SelectSeq(docx_files, LAMBDA file : ~IsCorrupt(file))

\* the header and the footer texts of the sections of each pool document
TextsOfSections ==
    [docx \in DocPool |-> [header |-> Range(SectionTexts(docx.sections, "header", 1)),
                           footer |-> Range(SectionTexts(docx.sections, "footer", 1))]]

\* chosen is a most frequent header (or footer) text, the count of a text
\* being the number of documents one of whose sections has it; the empty
\* text when there is no header; variants are at most 5 of the observed texts
MostFrequentHeader(part, chosen, variants) ==
    LET readable == ReadableFiles
        observed == UNION {TextsOfSections[readable[i]][part] : i \in DOMAIN readable}
        documents(text) ==
            Cardinality({i \in DOMAIN readable : text \in TextsOfSections[readable[i]][part]})
    IN  /\ IF observed = {} THEN chosen = <<>>
           ELSE /\ chosen \in observed
                /\ \A text \in observed : documents(chosen) >= documents(text)
        /\ Len(variants) <= 5
        /\ Range(variants) \subseteq observed
        /\ Cardinality(observed) <= 5 => Range(variants) = observed

\* extract_style_roles and extract_kopfzeile have returned
StylesExtracted == pc = "phase5"

IsHeadingStyle(style) ==
    Contains(<<"H","e","a","d","i","n","g">>, style) \/ style \in {StyleTitle, StyleSubtitle}

\* whether a paragraph counts for a role: headings by the digit of their
\* level, the title style, list items, and other paragraphs of more than 20
\* characters
InCategory(role, para) ==
    CASE role = "H1" -> IsHeadingStyle(para.style) /\ Contains(<<"1">>, para.style)
      [] role = "H2" -> IsHeadingStyle(para.style) /\ Contains(<<"2">>, para.style)
      [] role = "H3" -> IsHeadingStyle(para.style) /\ Contains(<<"3">>, para.style)
      [] role = "TITLE" -> para.style = StyleTitle
      [] role = "BULLET" -> ~IsHeadingStyle(para.style) /\ para.is_list
      [] role = "BODY" -> /\ ~IsHeadingStyle(para.style)
                          /\ ~para.is_list
                          /\ Len(Strip(para.text)) > 20

DefaultStyle(role) ==
    CASE role = "H1" -> StyleHeading1
      [] role = "H2" -> StyleHeading2
      [] role = "H3" -> StyleHeading3
      [] role = "TITLE" -> StyleTitle
      [] role = "BULLET" -> StyleListBullet
      [] role = "BODY" -> StyleNormal

Usage(role, style) ==
    Cardinality({pl \in Places :
        /\ InCategory(role, profiles[pl[1]].paragraphs[pl[2]])
        /\ profiles[pl[1]].paragraphs[pl[2]].style = style})

C28_ProfilesFrozenAfterIngest ==
    [][IngestOver => profiles' = profiles]_vars

\* a run that went through every stage, on documents with an empty
\* paragraph, a repeated paragraph and headers, and returned its spec
C28_Witness ==
    /\ pc = "done"
    /\ returned = "template_spec"
    /\ Len(profiles) >= 2
    /\ sequences # <<>>
    /\ anchors # <<>>
    /\ kopfzeile.header # <<>>
    /\ \E para \in CorpusParagraphs : para.text # <<>> /\ Strip(para.text) = <<>>

\* C29: the set of FIXED fingerprints does not depend on the order of the
\* documents: compute_fingerprint_counts followed by classify_paragraphs
\* yields the same set when any two documents of the list change places,
\* also when paragraphs of different raw lengths share a fingerprint.
C29_FixedSetIndependentOfOrder ==
    pc = "classified" =>
        \A i, j \in DOMAIN profiles :
            i < j =>
                FixedFingerprints(classify_paragraphs(
                    compute_fingerprint_counts(Exchanged(profiles, i, j), SomeStyleOrder),
                    Len(profiles), threshold))
                    = FixedFingerprints(classification)

\* no two entries of the vocabulary yield the same anchor id
VocabularyIdsDistinct == \A m, n \in DOMAIN KNOWN_ANCHORS : m # n => SlugMemo[m] # SlugMemo[n]

\* C30: in the skeleton that build_skeleton makes of the anchors of
\* find_anchors no two Slot nodes have the same slot_id and no two Fixed
\* nodes have the same id, so a slot_id names one Slot node; the ids come
\* from the vocabulary, no two entries of which yield the same id.
C30_SkeletonIdsDistinct ==
    pc = "phase4" =>
        /\ \A k, l \in DOMAIN skeleton :
               k # l /\ skeleton[k].type = skeleton[l].type =>
                   IF skeleton[k].type = "slot"
                   THEN skeleton[k].slot_id # skeleton[l].slot_id
                   ELSE skeleton[k].id # skeleton[l].id
        /\ \A a, b \in DOMAIN anchors : a # b => anchors[a].id # anchors[b].id
        /\ VocabularyIdsDistinct

\* a skeleton of two Slot nodes and two Fixed nodes, for two anchors whose
\* names begin with different letters
C30_Witness ==
    /\ pc = "phase4"
    /\ \E k, l \in DOMAIN skeleton :
           /\ k < l
           /\ skeleton[k].type = "slot"
           /\ skeleton[l].type = "slot"
           /\ skeleton[k].section_name[1] # skeleton[l].section_name[1]
    /\ Cardinality({k \in DOMAIN skeleton : skeleton[k].type = "fixed"}) = 2

====
